---- MODULE Spec2Model ----
(***************************************************************************)
(* TeleStack (src/main.py): a Telegram bot that lists, starts, stops and   *)
(* reboots OpenStack servers.  The model follows one update at a time      *)
(* through its handler and records the cloud calls the handler issued and  *)
(* the message the operator received.                                      *)
(*                                                                         *)
(* Python strings on which the code computes (str(), lower(), split(),     *)
(* startswith(), f-strings) are sequences of one-character strings.        *)
(* Strings that are only compared for equality (machine names, flavor      *)
(* names) are TLA+ strings.                                                *)
(***************************************************************************)
EXTENDS Integers, Sequences, FiniteSets, TLC

VARIABLES
    TELEGRAM_ALLOWED_CHAT_IDS,  \* main.py:13, list of str
    OS_ALLOWED_PROJECTS,        \* main.py:16, list of str
    servers,                    \* what conn.compute.servers() enumerates now
    last,                       \* the update being answered and its outcome
    bulk                        \* the last completed bulk operation, if nothing happened since

vars == <<TELEGRAM_ALLOWED_CHAT_IDS, OS_ALLOWED_PROJECTS, servers, last, bulk>>

----------------------------------------------------------------------------
(* Bounds of the model *)

\* the cloud enumerates at most this many of the project's machines
MaxServers == 3

\* the injected failure hits a cloud call at position 1..MaxFail, or none (0)
MaxFail == 4

----------------------------------------------------------------------------
(* String literals of the source, as character sequences *)

US == "_"

S_start_all == <<"s","t","a","r","t","_","a","l","l">>
S_stop_all == <<"s","t","o","p","_","a","l","l">>
S_view_machines == <<"v","i","e","w","_","m","a","c","h","i","n","e","s">>
S_system_status == <<"s","y","s","t","e","m","_","s","t","a","t","u","s">>
S_back_to_main == <<"b","a","c","k","_","t","o","_","m","a","i","n">>
P_details == <<"d","e","t","a","i","l","s","_">>
P_start == <<"s","t","a","r","t","_">>
P_stop == <<"s","t","o","p","_">>
P_reboot == <<"r","e","b","o","o","t","_">>

S_active == <<"a","c","t","i","v","e">>
S_shutoff == <<"s","h","u","t","o","f","f">>
S_build == <<"b","u","i","l","d">>
S_rebuild == <<"r","e","b","u","i","l","d">>

----------------------------------------------------------------------------
(* Python string operations *)

Range(s) == {s[i] : i \in DOMAIN s}

Digits == <<"0","1","2","3","4","5","6","7","8","9">>

RECURSIVE StrNat(_)
StrNat(n) ==
    IF n < 10 THEN <<Digits[n + 1]>>
    ELSE StrNat(n \div 10) \o <<Digits[(n % 10) + 1]>>

\* str(chat_id) of a Python int
Str(n) == IF n < 0 THEN <<"-">> \o StrNat(-n) ELSE StrNat(n)

UpperChars == <<"A","B","C","D","E","F","G","H","I","J","K","L","M",
                "N","O","P","Q","R","S","T","U","V","W","X","Y","Z">>
LowerChars == <<"a","b","c","d","e","f","g","h","i","j","k","l","m",
                "n","o","p","q","r","s","t","u","v","w","x","y","z">>

LowerChar(c) ==
    IF \E i \in DOMAIN UpperChars : UpperChars[i] = c
    THEN LowerChars[CHOOSE i \in DOMAIN UpperChars : UpperChars[i] = c]
    ELSE c

\* str.lower()
lower(s) == [i \in 1..Len(s) |-> LowerChar(s[i])]

\* str.startswith(p)
startswith(s, p) == Len(s) >= Len(p) /\ SubSeq(s, 1, Len(p)) = p

\* str.split(sep) for a one-character separator
RECURSIVE split(_, _)
split(s, sep) ==
    IF \E i \in 1..Len(s) : s[i] = sep
    THEN LET k == CHOOSE i \in 1..Len(s) :
                     s[i] = sep /\ \A j \in 1..(i - 1) : s[j] # sep
         IN  <<SubSeq(s, 1, k - 1)>> \o split(SubSeq(s, k + 1, Len(s)), sep)
    ELSE <<s>>

\* query.data.split("_")[1]  (Python indexes from 0)
machine_id_of(data) == split(data, US)[2]

----------------------------------------------------------------------------
(* The environment: configuration, chats, the cloud's machines *)

\* TELEGRAM_ALLOWED_CHAT_IDS=42,-5
EnvAllowedChatIds == << <<"4","2">>, <<"-","5">> >>

\* OS_ALLOWED_PROJECTS=web1,web2
EnvAllowedProjects == <<"web1", "web2">>

\* chats an update may come from: two allowed ones, one that is not
ChatIds == {42, -5, 5}

ST_ACTIVE == <<"A","C","T","I","V","E">>
ST_SHUTOFF == <<"S","H","U","T","O","F","F">>
ST_BUILD == <<"B","U","I","L","D">>

\* status strings a server may carry (the API spells them in upper case,
\* the code lowers them before comparing)
StatusValues == {ST_ACTIVE, S_active, ST_SHUTOFF, ST_BUILD}

Flavors == <<
    [id |-> "f1", name |-> "m1.small", ram |-> 2048, vcpus |-> 1, disk |-> 20],
    [id |-> "f2", name |-> "m1.large", ram |-> 8192, vcpus |-> 4, disk |-> 80] >>

NoFlavor == [id |-> "", name |-> "", ram |-> 0, vcpus |-> 0, disk |-> 0]

\* the machines of the cloud project: id, name, flavor reference
Catalog == <<
    [id |-> <<"a">>,         name |-> "db1",  flavor |-> "f1"],
    [id |-> <<"a","l","l">>, name |-> "web2", flavor |-> "f1"],
    [id |-> <<"b">>,         name |-> "web1", flavor |-> "f1"],
    [id |-> <<"b","_","c">>, name |-> "db2",  flavor |-> "f2"] >>

Machine(i, st) ==
    [id |-> Catalog[i].id, name |-> Catalog[i].name,
     status |-> st, flavor |-> Catalog[i].flavor]

NoMachine == [id |-> <<>>, name |-> "", status |-> <<>>, flavor |-> ""]

\* machine ids an action identifier may carry
IdStrings == {Catalog[i].id : i \in DOMAIN Catalog} \cup {<<>>, <<"z">>}

\* callback data of an update: the identifiers the bot's own keyboards carry,
\* and identifiers no keyboard carries
ActionData ==
    {S_start_all, S_stop_all, S_view_machines, S_system_status, S_back_to_main}
    \cup {p \o id : p \in {P_details, P_start, P_stop, P_reboot}, id \in IdStrings}
    \cup {<<"f","o","o">>, <<"d","e","t","a","i","l","s">>, <<"r","e","s","t","a","r","t","_","a">>}

----------------------------------------------------------------------------
(* Cloud calls and messages *)

Call(op, id) == [op |-> op, id |-> id]

C_connect == Call("connect", <<>>)
C_servers == Call("servers", <<>>)

StateChangingOps == {"start_server", "stop_server", "reboot_server"}

\* the cloud call about to be made is the one the injected failure hits
Raises(cs, failAt) == Len(cs) + 1 = failAt

\* get_back_to_main_keyboard()
get_back_to_main_keyboard == <<S_back_to_main>>

\* a message to the operator; via is "reply" (reply_text), "edit"
\* (edit_message_text) or "none" (no message)
NoResponse ==
    [kind |-> "none", via |-> "none", buttons |-> <<>>, count |-> -1,
     total |-> -1, active |-> -1, shutoff |-> -1, other |-> -1,
     items |-> <<>>, name |-> "", status |-> <<>>, emoji |-> "",
     flavor |-> NoFlavor]

Message(kind, via, buttons) ==
    [NoResponse EXCEPT !.kind = kind, !.via = via, !.buttons = buttons]

\* what a handler hands back: the cloud calls it issued so far (a call that
\* raised is the last one), its message, and whether it raised
Ok(cs, resp) == [calls |-> cs, resp |-> resp, raised |-> FALSE]
Raise(cs) == [calls |-> cs, resp |-> NoResponse, raised |-> TRUE]

\* get_status_emoji(status)
get_status_emoji(status) ==
    LET st == lower(status)
    IN  IF st = S_active THEN "green"
        ELSE IF st = S_shutoff THEN "red"
        ELSE IF st \in {S_build, S_rebuild} THEN "yellow"
        ELSE "white"

\* connect_to_openstack(): logs and re-raises
connect_to_openstack(failAt) ==
    IF Raises(<<>>, failAt) THEN Raise(<<C_connect>>) ELSE Ok(<<C_connect>>, NoResponse)

\* conn.compute.get_server(machine_id): the server, or ResourceNotFound
get_server(machine_id, cs, failAt) ==
    LET cs2 == cs \o <<Call("get_server", machine_id)>>
    IN  IF Raises(cs, failAt) \/ ~\E i \in DOMAIN servers : servers[i].id = machine_id
        THEN [calls |-> cs2, raised |-> TRUE, machine |-> NoMachine]
        ELSE [calls |-> cs2, raised |-> FALSE,
              machine |-> servers[CHOOSE i \in DOMAIN servers : servers[i].id = machine_id]]

\* conn.compute.find_flavor(flavor_id)
find_flavor(flavor_id, cs, failAt) ==
    LET cs2 == cs \o <<Call("find_flavor", <<>>)>>
    IN  IF Raises(cs, failAt) \/ ~\E i \in DOMAIN Flavors : Flavors[i].id = flavor_id
        THEN [calls |-> cs2, raised |-> TRUE, flavor |-> NoFlavor]
        ELSE [calls |-> cs2, raised |-> FALSE,
              flavor |-> Flavors[CHOOSE i \in DOMAIN Flavors : Flavors[i].id = flavor_id]]

\* machine.name in OS_ALLOWED_PROJECTS
InAllowedProjects(name) == name \in Range(OS_ALLOWED_PROJECTS)

\* str(chat_id) in TELEGRAM_ALLOWED_CHAT_IDS
ChatAllowed(chat_id) == Str(chat_id) \in Range(TELEGRAM_ALLOWED_CHAT_IDS)

----------------------------------------------------------------------------
(* Bulk operations *)

\* a mutant of ShouldStart: the allow-list test is dropped
ShouldStart_NoAllowList(machine) == lower(machine.status) # S_active

\* the test of handle_start_all's loop
ShouldStart(machine) ==
    InAllowedProjects(machine.name) /\ lower(machine.status) # S_active

\* a mutant of ShouldStop: the allow-list test is dropped
ShouldStop_NoAllowList(machine) == lower(machine.status) # S_shutoff

\* a mutant of ShouldStop: the status is compared as the cloud spells it
ShouldStop_CaseSensitive(machine) ==
    InAllowedProjects(machine.name) /\ machine.status # S_shutoff

\* the test of handle_stop_all's loop
ShouldStop(machine) ==
    InAllowedProjects(machine.name) /\ lower(machine.status) # S_shutoff

\* the loop of handle_start_all from machine i on
RECURSIVE start_all_loop(_, _, _, _, _)
start_all_loop(machines, i, cs, started_count, failAt) ==
    IF i > Len(machines)
    THEN [calls |-> cs, count |-> started_count, raised |-> FALSE]
    ELSE IF ShouldStart(machines[i])
         THEN LET cs2 == cs \o <<Call("start_server", machines[i].id)>>
              IN  IF Raises(cs, failAt)
                  THEN [calls |-> cs2, count |-> started_count, raised |-> TRUE]
                  ELSE start_all_loop(machines, i + 1, cs2, started_count + 1, failAt)
         ELSE start_all_loop(machines, i + 1, cs, started_count, failAt)

handle_start_all(cs, failAt) ==
    IF Raises(cs, failAt) THEN Raise(cs \o <<C_servers>>)
    ELSE LET r == start_all_loop(servers, 1, cs \o <<C_servers>>, 0, failAt)
         IN  IF r.raised THEN Raise(r.calls)
             ELSE Ok(r.calls,
                     [Message("started_all", "edit", get_back_to_main_keyboard)
                         EXCEPT !.count = r.count])

\* the loop of handle_stop_all from machine i on
RECURSIVE stop_all_loop(_, _, _, _, _)
stop_all_loop(machines, i, cs, stopped_count, failAt) ==
    IF i > Len(machines)
    THEN [calls |-> cs, count |-> stopped_count, raised |-> FALSE]
    ELSE IF ShouldStop(machines[i])
         THEN LET cs2 == cs \o <<Call("stop_server", machines[i].id)>>
              IN  IF Raises(cs, failAt)
                  THEN [calls |-> cs2, count |-> stopped_count, raised |-> TRUE]
                  ELSE stop_all_loop(machines, i + 1, cs2, stopped_count + 1, failAt)
         ELSE stop_all_loop(machines, i + 1, cs, stopped_count, failAt)

handle_stop_all(cs, failAt) ==
    IF Raises(cs, failAt) THEN Raise(cs \o <<C_servers>>)
    ELSE LET r == stop_all_loop(servers, 1, cs \o <<C_servers>>, 0, failAt)
         IN  IF r.raised THEN Raise(r.calls)
             ELSE Ok(r.calls,
                     [Message("stopped_all", "edit", get_back_to_main_keyboard)
                         EXCEPT !.count = r.count])

----------------------------------------------------------------------------
(* Listing, details and per-machine operations *)

\* [machine for machine in machines if machine.name in OS_ALLOWED_PROJECTS]
allowed_machines(machines) == SelectSeq(machines, LAMBDA m : InAllowedProjects(m.name))

handle_view_machines(cs, failAt) ==
    IF Raises(cs, failAt) THEN Raise(cs \o <<C_servers>>)
    ELSE LET am == allowed_machines(servers)
             cs2 == cs \o <<C_servers>>
         IN  IF am = <<>>
             THEN Ok(cs2, Message("no_machines", "edit", get_back_to_main_keyboard))
             ELSE Ok(cs2,
                     [Message("machines", "edit",
                              [i \in 1..Len(am) |-> P_details \o am[i].id]
                                  \o <<S_back_to_main>>)
                         EXCEPT !.items = [i \in 1..Len(am) |->
                                             [name |-> am[i].name,
                                              emoji |-> get_status_emoji(am[i].status)]]])

handle_details(data, cs, failAt) ==
    LET machine_id == machine_id_of(data)
        g == get_server(machine_id, cs, failAt)
    IN  IF g.raised THEN Raise(g.calls)
        ELSE LET f == find_flavor(g.machine.flavor, g.calls, failAt)
             IN  IF f.raised THEN Raise(f.calls)
                 ELSE Ok(f.calls,
                         [Message("details", "edit",
                                  <<P_start \o machine_id, P_stop \o machine_id,
                                    P_reboot \o machine_id, S_view_machines>>)
                             EXCEPT !.name = g.machine.name,
                                    !.status = g.machine.status,
                                    !.emoji = get_status_emoji(g.machine.status),
                                    !.flavor = f.flavor])

\* a mutant of handle_start: the allow-list check is missing
handle_start_Unchecked(data, cs, failAt) ==
    LET machine_id == machine_id_of(data)
        g == get_server(machine_id, cs, failAt)
    IN  IF g.raised THEN Raise(g.calls)
        ELSE LET cs2 == g.calls \o <<Call("start_server", machine_id)>>
             IN  IF Raises(g.calls, failAt) THEN Raise(cs2)
                 ELSE Ok(cs2, [Message("starting", "edit", get_back_to_main_keyboard)
                                  EXCEPT !.name = g.machine.name])

handle_start(data, cs, failAt) ==
    LET machine_id == machine_id_of(data)
        g == get_server(machine_id, cs, failAt)
    IN  IF g.raised THEN Raise(g.calls)
        ELSE IF ~InAllowedProjects(g.machine.name)
        THEN Ok(g.calls, Message("denied_machine", "edit", get_back_to_main_keyboard))
        ELSE LET cs2 == g.calls \o <<Call("start_server", machine_id)>>
             IN  IF Raises(g.calls, failAt) THEN Raise(cs2)
                 ELSE Ok(cs2, [Message("starting", "edit", get_back_to_main_keyboard)
                                  EXCEPT !.name = g.machine.name])

handle_stop(data, cs, failAt) ==
    LET machine_id == machine_id_of(data)
        g == get_server(machine_id, cs, failAt)
    IN  IF g.raised THEN Raise(g.calls)
        ELSE IF ~InAllowedProjects(g.machine.name)
        THEN Ok(g.calls, Message("denied_machine", "edit", get_back_to_main_keyboard))
        ELSE LET cs2 == g.calls \o <<Call("stop_server", machine_id)>>
             IN  IF Raises(g.calls, failAt) THEN Raise(cs2)
                 ELSE Ok(cs2, [Message("stopping", "edit", get_back_to_main_keyboard)
                                  EXCEPT !.name = g.machine.name])

\* a mutant of handle_reboot: the allow-list check is missing
handle_reboot_Unchecked(data, cs, failAt) ==
    LET machine_id == machine_id_of(data)
        g == get_server(machine_id, cs, failAt)
    IN  IF g.raised THEN Raise(g.calls)
        ELSE LET cs2 == g.calls \o <<Call("reboot_server", machine_id)>>
             IN  IF Raises(g.calls, failAt) THEN Raise(cs2)
                 ELSE Ok(cs2, [Message("rebooting", "edit", get_back_to_main_keyboard)
                                  EXCEPT !.name = g.machine.name])

handle_reboot(data, cs, failAt) ==
    LET machine_id == machine_id_of(data)
        g == get_server(machine_id, cs, failAt)
    IN  IF g.raised THEN Raise(g.calls)
        ELSE IF ~InAllowedProjects(g.machine.name)
        THEN Ok(g.calls, Message("denied_machine", "edit", get_back_to_main_keyboard))
        ELSE LET cs2 == g.calls \o <<Call("reboot_server", machine_id)>>
             IN  IF Raises(g.calls, failAt) THEN Raise(cs2)
                 ELSE Ok(cs2, [Message("rebooting", "edit", get_back_to_main_keyboard)
                                  EXCEPT !.name = g.machine.name])

----------------------------------------------------------------------------
(* Status aggregation *)

CountWhere(machines, st) ==
    Cardinality({i \in DOMAIN machines : lower(machines[i].status) = st})

\* a mutant of status_counts: other is what is left of all machines, allowed or not
status_counts_OtherOfAll(machines) ==
    LET am == allowed_machines(machines)
        total == Len(am)
        active == CountWhere(am, S_active)
        shutoff == CountWhere(am, S_shutoff)
    IN  [total |-> total, active |-> active, shutoff |-> shutoff,
         other |-> Len(machines) - active - shutoff]

\* total, active, shutoff, other as status_command and handle_system_status
\* compute them
status_counts(machines) ==
    LET am == allowed_machines(machines)
        total == Len(am)
        active == CountWhere(am, S_active)
        shutoff == CountWhere(am, S_shutoff)
    IN  [total |-> total, active |-> active, shutoff |-> shutoff,
         other |-> total - active - shutoff]

status_message(via, machines) ==
    LET c == status_counts(machines)
    IN  [Message("status", via, get_back_to_main_keyboard)
            EXCEPT !.total = c.total, !.active = c.active,
                   !.shutoff = c.shutoff, !.other = c.other]

handle_system_status(cs, failAt) ==
    IF Raises(cs, failAt) THEN Raise(cs \o <<C_servers>>)
    ELSE Ok(cs \o <<C_servers>>, status_message("edit", servers))

\* show_main_menu: edits the message of a callback query, replies to a command
show_main_menu(is_callback_query) ==
    Message("menu", IF is_callback_query THEN "edit" ELSE "reply",
            <<S_view_machines, S_start_all, S_stop_all, S_system_status>>)

----------------------------------------------------------------------------
(* The callback query handler *)

\* the if/elif chain of button: the handler query.data selects
Route(data) ==
    IF data = S_start_all THEN "handle_start_all"
    ELSE IF data = S_stop_all THEN "handle_stop_all"
    ELSE IF data = S_view_machines THEN "handle_view_machines"
    ELSE IF startswith(data, P_details) THEN "handle_details"
    ELSE IF startswith(data, P_start) THEN "handle_start"
    ELSE IF startswith(data, P_stop) THEN "handle_stop"
    ELSE IF startswith(data, P_reboot) THEN "handle_reboot"
    ELSE IF data = S_system_status THEN "handle_system_status"
    ELSE IF data = S_back_to_main THEN "show_main_menu"
    ELSE "none"

\* the body of button's try block
Dispatch(handler, data, cs, failAt) ==
    CASE handler = "handle_start_all" -> handle_start_all(cs, failAt)
      [] handler = "handle_stop_all" -> handle_stop_all(cs, failAt)
      [] handler = "handle_view_machines" -> handle_view_machines(cs, failAt)
      [] handler = "handle_details" -> handle_details(data, cs, failAt)
      [] handler = "handle_start" -> handle_start(data, cs, failAt)
      [] handler = "handle_stop" -> handle_stop(data, cs, failAt)
      [] handler = "handle_reboot" -> handle_reboot(data, cs, failAt)
      [] handler = "handle_system_status" -> handle_system_status(cs, failAt)
      [] handler = "show_main_menu" -> Ok(cs, show_main_menu(TRUE))
      [] OTHER -> Ok(cs, NoResponse)

\* the outcome of an update: handler is the one the router selected, exc
\* tells that an exception left the handler, failed that a cloud call raised
Outcome(handler, cs, resp, exc, failed) ==
    [handler |-> handler, calls |-> cs, resp |-> resp, exc |-> exc, failed |-> failed]

\* button(update, context)
button(chat_id, data, failAt) ==
    IF ~ChatAllowed(chat_id)
    THEN Outcome("none", <<>>, Message("denied_chat", "edit", <<>>), FALSE, FALSE)
    ELSE LET conn == connect_to_openstack(failAt)
         IN  IF conn.raised
             THEN Outcome("none", conn.calls, NoResponse, TRUE, TRUE)
             ELSE LET r == Dispatch(Route(data), data, conn.calls, failAt)
                  IN  IF r.raised
                      THEN Outcome(Route(data), r.calls,
                                   Message("error", "edit", get_back_to_main_keyboard),
                                   FALSE, TRUE)
                      ELSE Outcome(Route(data), r.calls, r.resp, FALSE, FALSE)

----------------------------------------------------------------------------
(* The command handlers *)

\* start(update, context)
start == Outcome("start", <<>>, show_main_menu(FALSE), FALSE, FALSE)

\* help_command(update, context)
help_command ==
    Outcome("help_command", <<>>, Message("help", "reply", get_back_to_main_keyboard),
            FALSE, FALSE)

\* status_command(update, context): nothing catches what the cloud calls raise
status_command(failAt) ==
    LET conn == connect_to_openstack(failAt)
    IN  IF conn.raised
        THEN Outcome("status_command", conn.calls, NoResponse, TRUE, TRUE)
        ELSE IF Raises(conn.calls, failAt)
        THEN Outcome("status_command", conn.calls \o <<C_servers>>, NoResponse, TRUE, TRUE)
        ELSE Outcome("status_command", conn.calls \o <<C_servers>>,
                     status_message("reply", servers), FALSE, FALSE)

----------------------------------------------------------------------------
(* The state machine: updates are handled one at a time, each to completion; *)
(* between two updates the cloud may change the machines' statuses.          *)

Idle ==
    [kind |-> "none", chat |-> 0, data |-> <<>>, handler |-> "none",
     calls |-> <<>>, resp |-> NoResponse, exc |-> FALSE, failed |-> FALSE,
     follows |-> -1]

Handled(kind, chat_id, data, o, follows) ==
    [kind |-> kind, chat |-> chat_id, data |-> data, handler |-> o.handler,
     calls |-> o.calls, resp |-> o.resp, exc |-> o.exc, failed |-> o.failed,
     follows |-> follows]

NoBulk == [op |-> "none", acted |-> {}, settled |-> FALSE]

CallIds(cs, op) == {cs[i].id : i \in {j \in DOMAIN cs : cs[j].op = op}}

\* the bulk operation an outcome completed without error, if any
BulkOf(o) ==
    IF o.handler = "handle_start_all" /\ o.resp.kind = "started_all"
    THEN [op |-> "start_all", acted |-> CallIds(o.calls, "start_server"), settled |-> FALSE]
    ELSE IF o.handler = "handle_stop_all" /\ o.resp.kind = "stopped_all"
    THEN [op |-> "stop_all", acted |-> CallIds(o.calls, "stop_server"), settled |-> FALSE]
    ELSE NoBulk

\* when the outcome is that of the same bulk operation as the one the cloud
\* has just carried out: the number of machines that one acted on; else -1
Follows(o) ==
    IF /\ bulk.settled
       /\ \/ bulk.op = "start_all" /\ o.handler = "handle_start_all"
          \/ bulk.op = "stop_all" /\ o.handler = "handle_stop_all"
    THEN Cardinality(bulk.acted)
    ELSE -1

Init ==
    /\ TELEGRAM_ALLOWED_CHAT_IDS = EnvAllowedChatIds
    /\ OS_ALLOWED_PROJECTS = EnvAllowedProjects
    /\ \E S \in SUBSET (DOMAIN Catalog) : \E st \in [S -> StatusValues] :
          /\ Cardinality(S) <= MaxServers
          /\ LET sel == SelectSeq([i \in DOMAIN Catalog |-> i], LAMBDA i : i \in S)
             IN  servers = [k \in 1..Len(sel) |-> Machine(sel[k], st[sel[k]])]
    /\ last = Idle
    /\ bulk = NoBulk

\* CommandHandler('start', start)
OnStart ==
    /\ last.kind = "none"
    /\ \E chat_id \in ChatIds : last' = Handled("start", chat_id, <<>>, start, -1)
    /\ bulk' = NoBulk
    /\ UNCHANGED <<TELEGRAM_ALLOWED_CHAT_IDS, OS_ALLOWED_PROJECTS, servers>>

\* CommandHandler('help', help_command)
OnHelp ==
    /\ last.kind = "none"
    /\ \E chat_id \in ChatIds : last' = Handled("help", chat_id, <<>>, help_command, -1)
    /\ bulk' = NoBulk
    /\ UNCHANGED <<TELEGRAM_ALLOWED_CHAT_IDS, OS_ALLOWED_PROJECTS, servers>>

\* CommandHandler('status', status_command)
OnStatus ==
    /\ last.kind = "none"
    /\ \E chat_id \in ChatIds, failAt \in 0..MaxFail :
          last' = Handled("status", chat_id, <<>>, status_command(failAt), -1)
    /\ bulk' = NoBulk
    /\ UNCHANGED <<TELEGRAM_ALLOWED_CHAT_IDS, OS_ALLOWED_PROJECTS, servers>>

\* CallbackQueryHandler(button)
OnCallbackQuery ==
    /\ last.kind = "none"
    /\ \E chat_id \in ChatIds, data \in ActionData, failAt \in 0..MaxFail :
          LET o == button(chat_id, data, failAt)
          IN  /\ last' = Handled("button", chat_id, data, o, Follows(o))
              /\ bulk' = BulkOf(o)
    /\ UNCHANGED <<TELEGRAM_ALLOWED_CHAT_IDS, OS_ALLOWED_PROJECTS, servers>>

\* the handler has returned (or raised); the next update can be taken
Finish ==
    /\ last.kind # "none"
    /\ last' = Idle
    /\ UNCHANGED <<TELEGRAM_ALLOWED_CHAT_IDS, OS_ALLOWED_PROJECTS, servers, bulk>>

\* the cloud carries out the calls of the last bulk operation: each machine
\* it acted on reaches the target status, nothing else changes
CloudSettle ==
    /\ last.kind = "none"
    /\ bulk.op # "none" /\ ~bulk.settled
    /\ servers' = [i \in DOMAIN servers |->
                     IF servers[i].id \in bulk.acted
                     THEN [servers[i] EXCEPT !.status =
                              IF bulk.op = "start_all" THEN ST_ACTIVE ELSE ST_SHUTOFF]
                     ELSE servers[i]]
    /\ bulk' = [bulk EXCEPT !.settled = TRUE]
    /\ UNCHANGED <<TELEGRAM_ALLOWED_CHAT_IDS, OS_ALLOWED_PROJECTS, last>>

\* some machine's status changes in the cloud
CloudChange ==
    /\ last.kind = "none"
    /\ \E i \in DOMAIN servers, st \in StatusValues :
          /\ st # servers[i].status
          /\ servers' = [servers EXCEPT ![i].status = st]
    /\ bulk' = NoBulk
    /\ UNCHANGED <<TELEGRAM_ALLOWED_CHAT_IDS, OS_ALLOWED_PROJECTS, last>>

Next ==
    \/ OnStart
    \/ OnHelp
    \/ OnStatus
    \/ OnCallbackQuery
    \/ Finish
    \/ CloudSettle
    \/ CloudChange

Spec == Init /\ [][Next]_vars

----------------------------------------------------------------------------
(* Vocabulary of the properties.  The properties spell out the allow-lists *)
(* and the status spellings themselves instead of using the operators the  *)
(* handlers are built from.                                                *)

AllowedNames == Range(EnvAllowedProjects)

ActiveSpellings == {ST_ACTIVE, S_active}
ShutoffSpellings == {ST_SHUTOFF, S_shutoff}

FromAllowedChat == Str(last.chat) \in Range(EnvAllowedChatIds)

\* number of calls op(id) among the calls of the update
CountCalls(op, id) ==
    Cardinality({k \in DOMAIN last.calls : last.calls[k] = Call(op, id)})

\* the calls of the update that change a machine's state
StateChangingCalls ==
    {k \in DOMAIN last.calls : last.calls[k].op \in StateChangingOps}

ServerIds == {servers[i].id : i \in DOMAIN servers}

\* machines start_all / stop_all are to act on
StartTargets ==
    {i \in DOMAIN servers :
        servers[i].name \in AllowedNames /\ servers[i].status \notin ActiveSpellings}
StopTargets ==
    {i \in DOMAIN servers :
        servers[i].name \in AllowedNames /\ servers[i].status \notin ShutoffSpellings}

----------------------------------------------------------------------------
(* C1 *)

\* C1 (as claimed): every command and every button action from a chat id that
\* is not in the allowed chat-id list is answered with access denied and
\* issues no cloud call.
C1_DeniedChatNoCloudCall ==
    (last.kind # "none" /\ ~FromAllowedChat) =>
        (last.resp.kind = "denied_chat" /\ last.calls = <<>>)

----------------------------------------------------------------------------
(* C2, C3 *)

\* C2: a start_all that completes without error issues exactly one
\* start_server call to each allow-listed machine whose status is not
\* 'active' (case-insensitively), no other state-changing call, and reports
\* the number of those machines.
C2_StartAllExact ==
    (last.kind = "button" /\ last.data = S_start_all /\ FromAllowedChat /\ ~last.failed) =>
        /\ last.resp.kind = "started_all"
        /\ \A i \in DOMAIN servers :
              CountCalls("start_server", servers[i].id) = IF i \in StartTargets THEN 1 ELSE 0
        /\ \A k \in StateChangingCalls :
              last.calls[k].op = "start_server" /\ last.calls[k].id \in ServerIds
        /\ last.resp.count = Cardinality(StartTargets)

\* web1 active, web2 shutoff, db1 active: one start call, to web2, "Started 1"
C2_Witness ==
    /\ last.kind = "button" /\ last.data = S_start_all /\ last.resp.kind = "started_all"
    /\ \E i, j, k \in DOMAIN servers :
          /\ servers[i].name = "web1" /\ servers[i].status = ST_ACTIVE
          /\ servers[j].name = "web2" /\ servers[j].status = ST_SHUTOFF
          /\ servers[k].name = "db1" /\ servers[k].status = S_active
          /\ CountCalls("start_server", servers[j].id) = 1
    /\ Cardinality(StateChangingCalls) = 1
    /\ last.resp.count = 1

\* C3: a stop_all that completes without error issues exactly one stop_server
\* call to each allow-listed machine whose status is not 'shutoff'
\* (case-insensitively), no other state-changing call, and reports the number
\* of those machines.
C3_StopAllExact ==
    (last.kind = "button" /\ last.data = S_stop_all /\ FromAllowedChat /\ ~last.failed) =>
        /\ last.resp.kind = "stopped_all"
        /\ \A i \in DOMAIN servers :
              CountCalls("stop_server", servers[i].id) = IF i \in StopTargets THEN 1 ELSE 0
        /\ \A k \in StateChangingCalls :
              last.calls[k].op = "stop_server" /\ last.calls[k].id \in ServerIds
        /\ last.resp.count = Cardinality(StopTargets)

\* web1 shut off, web2 building, db1 active: one stop call, to web2
C3_Witness ==
    /\ last.kind = "button" /\ last.data = S_stop_all /\ last.resp.kind = "stopped_all"
    /\ \E i, j, k \in DOMAIN servers :
          /\ servers[i].name = "web1" /\ servers[i].status = ST_SHUTOFF
          /\ servers[j].name = "web2" /\ servers[j].status = ST_BUILD
          /\ servers[k].name = "db1" /\ servers[k].status = ST_ACTIVE
          /\ CountCalls("stop_server", servers[j].id) = 1
    /\ Cardinality(StateChangingCalls) = 1
    /\ last.resp.count = 1

----------------------------------------------------------------------------
(* C4 *)

PerMachineHandlers == {"handle_start", "handle_stop", "handle_reboot"}

\* C4 (as claimed): a per-machine start, stop or reboot on a machine whose
\* name is not allow-listed is rejected with access denied and no cloud
\* accessor call at all is made, fetch-server-by-id included.
C4_RejectedWithoutCloudCall ==
    \A i \in DOMAIN servers :
        ( /\ last.kind = "button" /\ FromAllowedChat /\ ~last.failed
          /\ last.data \in {P_start \o servers[i].id, P_stop \o servers[i].id,
                            P_reboot \o servers[i].id}
          /\ servers[i].name \notin AllowedNames )
        => (last.resp.kind = "denied_machine" /\ last.calls = <<>>)

\* C4 (amended): when the machine a per-machine start, stop or reboot fetched
\* has a name that is not allow-listed, the action is rejected with access
\* denied and no start, stop or reboot call is issued; the cloud accessor has
\* been invoked: the calls are exactly one connect and one get_server.
C4_RejectedBeforeStateChange ==
    \A i \in DOMAIN servers :
        ( /\ last.kind = "button" /\ FromAllowedChat /\ ~last.failed
          /\ last.handler \in PerMachineHandlers
          /\ Len(last.calls) >= 2
          /\ last.calls[2] = Call("get_server", servers[i].id)
          /\ servers[i].name \notin AllowedNames )
        => /\ last.resp.kind = "denied_machine"
           /\ last.calls = <<C_connect, Call("get_server", servers[i].id)>>

\* stop_a, a being db1, is denied after connect and get_server
C4_Witness ==
    /\ last.kind = "button" /\ last.data = P_stop \o <<"a">>
    /\ last.resp.kind = "denied_machine"
    /\ last.calls = <<C_connect, Call("get_server", <<"a">>)>>
    /\ \E i \in DOMAIN servers : servers[i].id = <<"a">> /\ servers[i].name = "db1"

----------------------------------------------------------------------------
(* C5 *)

\* C5: the /status command and the system_status action, when the cloud calls
\* succeed, report total = the number of allow-listed machines, active and
\* shutoff = the numbers of those with that status (case-insensitively),
\* other = the number of those in neither status, other >= 0, and
\* total = active + shutoff + other.
C5_StatusCounts ==
    LET A == {i \in DOMAIN servers : servers[i].name \in AllowedNames}
        act == {i \in A : servers[i].status \in ActiveSpellings}
        sh == {i \in A : servers[i].status \in ShutoffSpellings}
        r == last.resp
    IN  /\ ( /\ ~last.failed
             /\ \/ last.kind = "status"
                \/ last.kind = "button" /\ FromAllowedChat /\ last.data = S_system_status )
           => r.kind = "status"
        /\ r.kind = "status" =>
              /\ r.total = Cardinality(A)
              /\ r.active = Cardinality(act)
              /\ r.shutoff = Cardinality(sh)
              /\ r.other = Cardinality(A \ (act \cup sh))
              /\ r.other >= 0
              /\ r.total = r.active + r.shutoff + r.other

\* system_status with one allow-listed machine active and one building
C5_Witness ==
    /\ last.kind = "button" /\ last.data = S_system_status
    /\ last.resp.kind = "status"
    /\ last.resp.total = 2 /\ last.resp.active = 1 /\ last.resp.other = 1
    /\ Len(servers) = 3

----------------------------------------------------------------------------
(* C6 *)

\* C6 (as claimed): whenever a cloud call made while handling a button action
\* or the /status command from an allowed chat raises, the operator receives
\* the generic error message and no exception leaves the handler.
C6_FailureSurfacesAsError ==
    (last.kind \in {"button", "status"} /\ FromAllowedChat /\ last.failed) =>
        (last.resp.kind = "error" /\ ~last.exc)

----------------------------------------------------------------------------
(* C7 *)

\* C7 (as claimed): every message that carries machine data (the machine
\* list, the details of a machine) carries data of allow-listed machines only.
C7_OnlyAllowedMachineData ==
    /\ last.resp.kind = "details" => last.resp.name \in AllowedNames
    /\ last.resp.kind = "machines" =>
          \A k \in DOMAIN last.resp.items : last.resp.items[k].name \in AllowedNames

----------------------------------------------------------------------------
(* C8 *)

\* C8: a start_all (stop_all) that immediately follows a completed start_all
\* (stop_all) whose machines have all reached active (shutoff), nothing else
\* having changed, issues no start (stop) call and, when it completes, reports
\* 0; and no bulk operation ever sends its call to a machine already in the
\* target state.
C8_BulkIdempotent ==
    /\ (last.kind = "button" /\ last.follows >= 0) =>
          /\ StateChangingCalls = {}
          /\ ~last.failed =>
                /\ last.resp.kind \in {"started_all", "stopped_all"}
                /\ last.resp.count = 0
    /\ \A k \in StateChangingCalls, i \in DOMAIN servers :
          (servers[i].id = last.calls[k].id) =>
              /\ (last.data = S_start_all => servers[i].status \notin ActiveSpellings)
              /\ (last.data = S_stop_all => servers[i].status \notin ShutoffSpellings)

\* a stop_all that had stopped two machines is repeated after the cloud has
\* shut them off: "Stopped 0"
C8_Witness ==
    /\ last.kind = "button" /\ last.data = S_stop_all
    /\ last.follows = 2
    /\ last.resp.kind = "stopped_all" /\ last.resp.count = 0
    /\ \E i \in DOMAIN servers : servers[i].status = ST_SHUTOFF

----------------------------------------------------------------------------
(* C9 *)

\* the parameterized identifiers: prefix, the handler it names, the call the
\* handler is for, the message it reports with
Parameterized == {
    [prefix |-> P_details, handler |-> "handle_details", op |-> "none", kind |-> "details"],
    [prefix |-> P_start, handler |-> "handle_start", op |-> "start_server", kind |-> "starting"],
    [prefix |-> P_stop, handler |-> "handle_stop", op |-> "stop_server", kind |-> "stopping"],
    [prefix |-> P_reboot, handler |-> "handle_reboot", op |-> "reboot_server",
     kind |-> "rebooting"] }

\* the identifiers the router knows
KnownData(data) ==
    \/ data \in {S_start_all, S_stop_all, S_view_machines, S_system_status, S_back_to_main}
    \/ \E p \in Parameterized :
          Len(data) >= Len(p.prefix) /\ \A k \in 1..Len(p.prefix) : data[k] = p.prefix[k]

\* the router has been reached: the chat is allowed and the connection is made
Routed == last.kind = "button" /\ FromAllowedChat /\ ~last.exc

\* C9 (as claimed): for every identifier <prefix><id>, the router selects the
\* handler the prefix names, and that handler fetches the machine whose id is
\* the whole suffix <id> (ids with '_' and the id 'all' included), checks its
\* name against the allow-list (access denied when it is not allow-listed) and
\* acts on that machine and no other; identifiers matching no known action
\* cause no state-changing call and no message.
\* The identifiers start_all and stop_all, which section 6 of the spec gives to
\* the bulk actions, are left out of the statement: the code departs from the
\* claim without them.
C9_PrefixAndWholeSuffix ==
    Routed =>
        /\ \A p \in Parameterized, id \in IdStrings :
              (last.data = p.prefix \o id /\ last.data \notin {S_start_all, S_stop_all}) =>
                  /\ last.handler = p.handler
                  /\ Len(last.calls) >= 2
                  /\ last.calls[2] = Call("get_server", id)
                  /\ \A k \in StateChangingCalls : last.calls[k] = Call(p.op, id)
                  /\ \A i \in DOMAIN servers :
                        (servers[i].id = id /\ ~last.failed) =>
                            IF servers[i].name \in AllowedNames
                            THEN /\ last.resp.kind = p.kind
                                 /\ last.resp.name = servers[i].name
                                 /\ p.op # "none" => CountCalls(p.op, id) = 1
                            ELSE last.resp.kind = "denied_machine"
        /\ ~KnownData(last.data) =>
              (StateChangingCalls = {} /\ last.resp.kind = "none")

----------------------------------------------------------------------------
(* C10 *)

\* C10: a start_server, stop_server or reboot_server call is only ever issued
\* while handling a button action from an allowed chat, for the id of a
\* machine whose name is allow-listed and which was fetched from the cloud
\* earlier in the same handling (by the enumeration or by get_server for that
\* id); the two allow-lists keep the values they were loaded with.
C10_StateChangingOnlyAllowed ==
    /\ TELEGRAM_ALLOWED_CHAT_IDS = EnvAllowedChatIds
    /\ OS_ALLOWED_PROJECTS = EnvAllowedProjects
    /\ \A k \in StateChangingCalls :
          /\ last.kind = "button" /\ FromAllowedChat
          /\ \E i \in DOMAIN servers :
                servers[i].id = last.calls[k].id /\ servers[i].name \in AllowedNames
          /\ \E j \in 1..(k - 1) :
                \/ last.calls[j] = C_servers
                \/ last.calls[j] = Call("get_server", last.calls[k].id)

\* reboot_all from chat -5 reboots web2, whose id is all
C10_Witness ==
    /\ last.kind = "button" /\ last.chat = -5
    /\ last.data = P_reboot \o <<"a","l","l">>
    /\ last.calls = <<C_connect, Call("get_server", <<"a","l","l">>),
                      Call("reboot_server", <<"a","l","l">>)>>
    /\ last.resp.kind = "rebooting" /\ last.resp.name = "web2"

====
